---- MODULE Spec2Model ----
(***************************************************************************)
(* A model of the Android device operator tool server (src/tools/*.py).    *)
(*                                                                         *)
(* Every tool is a handler that opens a uiautomator2 connection, issues    *)
(* library calls and maps the outcome to a value.  The model keeps the     *)
(* device and bridge state the handlers read and change, a discrete clock, *)
(* and the record of the invocation in flight or last completed: its       *)
(* arguments, the library calls it issued in order, the exception it met,  *)
(* and the value it returned.                                              *)
(*                                                                         *)
(* A handler runs as one step, except where it blocks in a library wait    *)
(* (UiObject.wait, app_wait, asyncio.sleep): there the invocation stays    *)
(* "waiting" while the clock and the device move, and a second step        *)
(* resumes it.                                                             *)
(*                                                                         *)
(* The library (uiautomator2) and the bridge (adb) are outside the         *)
(* repository.  Their calls are modelled by what they return:              *)
(*   UiObject.wait(timeout)      -> bool   (waitForExists)                  *)
(*   Device.app_wait(pkg, front) -> int    (pid, or 0 when the wait ends    *)
(*                                          without the app: "pid or 0")   *)
(*   Device.screen_on()          -> None   (wakes the screen)               *)
(*   scroll.to(selector)         -> bool                                    *)
(*   d(selector)                 -> UiObject, whose truth value is its      *)
(*                                  match count (__len__)                  *)
(* and any of them may raise, chosen by the environment per invocation.    *)
(***************************************************************************)
EXTENDS Integers, Sequences, FiniteSets, TLC

VARIABLES
    adb_path,   \* whether shutil.which("adb") finds the bridge
    screenOn,   \* the device: its screen is on
    present,    \* the device: the selected UI element is on screen
    front,      \* the device: the launched package is in the foreground
    now,        \* the clock
    call,       \* the synchronous invocation in flight or last completed
    poll,       \* the wait_for_screen_on coroutine in flight or last completed
    registry    \* the server instance: the tool names registered, in order

vars == <<adb_path, screenOn, present, front, now, call, poll, registry>>

-----------------------------------------------------------------------------
(* Bounds of the model.                                                    *)

\* The clock runs from 0 to MaxTime.
MaxTime == 3
\* Caller-supplied timeouts are 1..MaxTimeout time units.
MaxTimeout == 2
\* Rows after the header in the bridge's list output.
MaxRows == 2
\* The library's own wait budget of app_wait, in time units.
AppWaitBudget == 2

Timeouts == 1..MaxTimeout

-----------------------------------------------------------------------------
(* Python values: a type tag and a payload.                                *)
(* The fields of a record carry no order; every record of the model lists  *)
(* its fields in the order in which TLC sorts them.                        *)

PyNone == [type |-> "NoneType", val |-> ""]
PyStr(s) == [type |-> "str", val |-> s]
PyBool(b) == [type |-> "bool", val |-> b]
PyInt(n) == [type |-> "int", val |-> n]
PyDict(d) == [type |-> "dict", val |-> d]
\* What a library selector call d(text=...) returns: a UiObject; n is the
\* number of elements it matches at the moment it is asked.
PyUiObject(n) == [type |-> "UiObject", val |-> n]

EmptyDict == [k \in {} |-> ""]
IsNone(v) == v.type = "NoneType"

\* Python's truth value of v, as `if v`, `v and ...`, `not v`, `v or ...` use it.
Truthy(v) ==
    CASE v.type = "NoneType" -> FALSE
      [] v.type = "bool" -> v.val
      [] v.type = "int" -> v.val # 0
      [] v.type = "str" -> v.val # ""
      [] v.type = "dict" -> DOMAIN v.val # {}
      [] v.type = "UiObject" -> v.val # 0
      [] OTHER -> TRUE

\* Whether attribute access v.name succeeds; it raises AttributeError otherwise.
HasAttr(v, name) ==
    CASE v.type = "UiObject" -> name \in {"exists", "info", "click", "long_click", "drag_to", "wait"}
      [] OTHER -> FALSE

Range(s) == {s[i] : i \in 1..Len(s)}

-----------------------------------------------------------------------------
(* The bridge's list output and its parsing.                               *)
(* A string is a sequence of atoms: words (maximal runs of non-blank        *)
(* characters) and the blank characters " ", "\t", "\n".                    *)

Blank == {" ", "\t", "\n"}

RECURSIVE LStrip(_)
LStrip(s) == IF s # <<>> /\ Head(s) \in Blank THEN LStrip(Tail(s)) ELSE s

RECURSIVE RStrip(_)
RStrip(s) ==
    IF s # <<>> /\ s[Len(s)] \in Blank THEN RStrip(SubSeq(s, 1, Len(s) - 1)) ELSE s

\* str.strip()
Strip(s) == RStrip(LStrip(s))

\* str.splitlines(): the lines between line breaks; a final line break opens
\* no further line, and the empty string has no lines.
RECURSIVE SplitLinesFrom(_, _)
SplitLinesFrom(s, cur) ==
    IF s = <<>> THEN (IF cur = <<>> THEN <<>> ELSE <<cur>>)
    ELSE IF Head(s) = "\n" THEN <<cur>> \o SplitLinesFrom(Tail(s), <<>>)
    ELSE SplitLinesFrom(Tail(s), Append(cur, Head(s)))

SplitLines(s) == SplitLinesFrom(s, <<>>)

\* str.split(): the maximal runs of non-blank atoms.
RECURSIVE SplitFrom(_, _)
SplitFrom(s, cur) ==
    IF s = <<>> THEN (IF cur = <<>> THEN <<>> ELSE <<cur>>)
    ELSE IF Head(s) \in Blank
         THEN (IF cur = <<>> THEN <<>> ELSE <<cur>>) \o SplitFrom(Tail(s), <<>>)
         ELSE SplitFrom(Tail(s), Append(cur, Head(s)))

Split(s) == SplitFrom(s, <<>>)

\* lines[1:]
Slice1(lines) == IF lines = <<>> THEN <<>> ELSE Tail(lines)

\* A loop that takes the identifier of every row, whatever its status.
RECURSIVE DevicesOfAnyStatus(_)
DevicesOfAnyStatus(lines) ==
    IF lines = <<>> THEN <<>>
    ELSE LET parts == Split(Head(lines))
             rest == DevicesOfAnyStatus(Tail(lines))
         IN IF Len(parts) >= 2 THEN <<parts[1]>> \o rest ELSE rest

\* The loop `for line in lines[1:]` of the three device tools.
RECURSIVE DevicesOfLines(_)
DevicesOfLines(lines) ==
    IF lines = <<>> THEN <<>>
    ELSE LET line == Head(lines)
             parts == Split(line)
             rest == DevicesOfLines(Tail(lines))
         IN IF Strip(line) # <<>> /\ Len(parts) >= 2 /\ parts[2] = <<"device">>
            THEN <<parts[1]>> \o rest
            ELSE rest

\* The copy of check_adb_and_list_devices.
ParseDevices(stdout) == DevicesOfLines(Slice1(SplitLines(Strip(stdout))))

\* The copy of get_device_status.
StatusDevices(stdout) == DevicesOfLines(Slice1(SplitLines(Strip(stdout))))

\* A copy that has drifted from the others: it takes rows of any status.
ConnectDevicesOfAnyStatus(stdout) == DevicesOfAnyStatus(Slice1(SplitLines(Strip(stdout))))

\* The copy of connect_device.
ConnectDevices(stdout) == DevicesOfLines(Slice1(SplitLines(Strip(stdout))))

\* What `adb devices` prints: the header, one line per row, an empty line.
Header == <<"List", " ", "of", " ", "devices", " ", "attached">>

RowKinds ==
    { <<"S1", "\t", "device">>, <<"S2", "\t", "device">>,
      <<"S2", "\t", "unauthorized">>, <<"S1", "\t", "offline">>,
      <<>> }

RowSeqs == UNION {[1..n -> RowKinds] : n \in 0..MaxRows}

RECURSIVE JoinRows(_)
JoinRows(rows) ==
    IF rows = <<>> THEN <<>> ELSE Head(rows) \o <<"\n">> \o JoinRows(Tail(rows))

AdbOutput(rows) == Header \o <<"\n">> \o JoinRows(rows) \o <<"\n">>

-----------------------------------------------------------------------------
(* Library calls and faults.                                               *)
(* A handler issues its library and bridge calls in order.  The            *)
(* environment picks, per invocation, the call that raises (or "none");    *)
(* the calls issued are the plan up to and including that call.            *)

\* The messages str(e) of the exceptions the library raises, and of those
\* subprocess.run raises for the bridge (CalledProcessError, OSError).
LibExcMsgs == {"", "device offline"}
BridgeExcMsgs == {"Command '['adb', 'devices']' returned non-zero exit status 1."}

\* u2.connect raises with or without a message; the other calls raise with one.
ExcMsgs(fault) ==
    IF fault = "none" THEN {""}
    ELSE IF fault = "adb devices" THEN BridgeExcMsgs
    ELSE IF fault = "connect" THEN LibExcMsgs
    ELSE LibExcMsgs \ {""}

Serials == {"S1", "S2"}
\* The serial of the device u2.connect(device_id) reaches, when it returns.
SerialsFor(device_id, fault) ==
    IF fault # "none" THEN {""}
    ELSE IF IsNone(device_id) THEN Serials ELSE {device_id.val}

DeviceIds == {PyNone, PyStr("S1")}

SelectorTypes == {"text", "resourceId", "description", "xpath"}
ValidSelectorTypes == {"text", "resourceId", "description"}

RECURSIVE Issued(_, _)
Issued(plan, fault) ==
    IF plan = <<>> THEN <<>>
    ELSE IF Head(plan) = fault THEN <<Head(plan)>>
    ELSE <<Head(plan)>> \o Issued(Tail(plan), fault)

Faults(plan) == {"none"} \cup Range(plan)

\* The calls among `calls` that returned (the raising call, if any, did not).
Completed(calls, fault) == {c \in Range(calls) : c # fault}

\* What a handler's run produced: the calls it issued, the exception it met
\* ("none" when it met none), whether that exception left the handler, and
\* the value returned (PyNone when the exception left it).
Outcome(calls, exc, raised, ret) ==
    [calls |-> calls, exc |-> exc, raised |-> raised, ret |-> ret]

-----------------------------------------------------------------------------
(* Boolean single-call tools:                                              *)
(*   try: d = u2.connect(device_id); d.X(...); return True                 *)
(*   except Exception as e: print(...); return False                       *)

\* A handler that issues its call through a handle some earlier invocation
\* opened, instead of connecting.
BoolToolSharedHandle(libcall, fault) ==
    Outcome(IF fault = "connect" THEN <<>> ELSE <<libcall>>,
            IF fault \in {"connect", libcall} THEN "LibraryError" ELSE "none",
            FALSE, PyBool(fault \notin {"connect", libcall}))

\* A server that keeps the connection of the last invocation: when that one
\* failed to connect, the next handler fails without connecting.
BoolToolSticky(libcall, fault) ==
    IF call.fault = "connect"
    THEN Outcome(<<>>, "LibraryError", FALSE, PyBool(FALSE))
    ELSE Outcome(Issued(<<"connect", libcall>>, fault),
                 IF fault \in {"connect", libcall} THEN "LibraryError" ELSE "none",
                 FALSE, PyBool(fault \notin {"connect", libcall}))

\* A handler whose except clause answers True as well.
BoolToolSwallowing(libcall, fault) ==
    Outcome(Issued(<<"connect", libcall>>, fault),
            IF fault \in {"connect", libcall} THEN "LibraryError" ELSE "none",
            FALSE, PyBool(TRUE))

BoolTool(libcall, fault) ==
    LET plan == <<"connect", libcall>>
        failed == fault \in Range(plan)
    IN  Outcome(Issued(plan, fault),
                IF failed THEN "LibraryError" ELSE "none",
                FALSE,
                IF failed THEN PyBool(FALSE) ELSE PyBool(TRUE))

press_key(fault) == BoolTool("press", fault)
swipe(fault) == BoolTool("swipe", fault)
send_text(fault) == BoolTool("send_keys", fault)
screenshot(fault) == BoolTool("screenshot", fault)
stop_app(fault) == BoolTool("app_stop", fault)
stop_all_apps(fault) == BoolTool("app_stop_all", fault)
clear_app_data(fault) == BoolTool("app_clear", fault)
screen_on(fault) == BoolTool("screen_on", fault)
screen_off(fault) == BoolTool("screen_off", fault)

\* The library call of each boolean single-call tool.
BoolTools ==
    [press_key |-> "press", swipe |-> "swipe", send_text |-> "send_keys",
     screenshot |-> "screenshot", stop_app |-> "app_stop",
     stop_all_apps |-> "app_stop_all", clear_app_data |-> "app_clear",
     screen_on |-> "screen_on", screen_off |-> "screen_off"]

\* An unlock_screen that wakes the screen without reading its state.
unlock_screen_waking(isOn, fault) ==
    LET plan == <<"connect", "info", "screen_on", "unlock">>
        failed == fault \in Range(plan)
    IN  Outcome(Issued(plan, fault),
                IF failed THEN "LibraryError" ELSE "none",
                FALSE,
                IF failed THEN PyBool(FALSE) ELSE PyBool(TRUE))

\* unlock_screen: reads d.info["screenOn"], wakes the screen if it is off,
\* then unlocks.
unlock_screen(isOn, fault) ==
    LET plan == IF isOn THEN <<"connect", "info", "unlock">>
                ELSE <<"connect", "info", "screen_on", "unlock">>
        failed == fault \in Range(plan)
    IN  Outcome(Issued(plan, fault),
                IF failed THEN "LibraryError" ELSE "none",
                FALSE,
                IF failed THEN PyBool(FALSE) ELSE PyBool(TRUE))

\* What d.app_current() answers: the app in front, or the launcher.
app_current(isFront) ==
    PyDict([package |-> IF isFront THEN "com.example.app" ELSE "com.android.launcher",
            activity |-> ".Main"])

\* get_current_app: no try/except; an exception leaves the handler.
get_current_app(isFront, fault) ==
    LET plan == <<"connect", "app_current">>
        failed == fault \in Range(plan)
    IN  Outcome(Issued(plan, fault),
                IF failed THEN "LibraryError" ELSE "none",
                failed,
                IF failed THEN PyNone ELSE app_current(isFront))

mcp_health == Outcome(<<>>, "none", FALSE,
                      PyStr("Hello, world! MCP Android Device Operator server is running."))

\* dump_hierarchy returns the library's XML, or "" on any exception.
dump_hierarchy(xml, fault) ==
    LET plan == <<"connect", "dump_hierarchy">>
        failed == fault \in Range(plan)
    IN  Outcome(Issued(plan, fault),
                IF failed THEN "LibraryError" ELSE "none",
                FALSE,
                IF failed THEN PyStr("") ELSE PyStr(xml))

\* get_toast: d.toast.get_message(10.0) or ""
get_toast(message, fault) ==
    LET plan == <<"connect", "toast.get_message">>
        failed == fault \in Range(plan)
    IN  Outcome(Issued(plan, fault),
                IF failed THEN "LibraryError" ELSE "none",
                FALSE,
                IF failed THEN PyStr("")
                ELSE IF Truthy(message) THEN message ELSE PyStr(""))

\* wait_activity returns what the library's wait_activity returned.
wait_activity(reached, fault) ==
    LET plan == <<"connect", "wait_activity">>
        failed == fault \in Range(plan)
    IN  Outcome(Issued(plan, fault),
                IF failed THEN "LibraryError" ELSE "none",
                FALSE,
                IF failed THEN PyBool(FALSE) ELSE PyBool(reached))

-----------------------------------------------------------------------------
(* Selector-consuming tools.                                               *)
(* `el` is the value the handler holds in its variable el: for click and   *)
(* get_element_info the return value of UiObject.wait(timeout), for        *)
(* long_click and drag the UiObject itself.                                *)

\* if el and el.exists: el.<gesture>(...); return True
\* return False                       (inside try ... except: return False)
\* The truth value of a UiObject asks the device for its match count, and
\* that of el.exists asks it whether the element exists.
ElementGesture(pre, el, gesture, fault) ==
    IF el.type = "UiObject"
    THEN LET plan == pre \o <<"count">>
                         \o (IF el.val # 0 THEN <<"exists", gesture>> ELSE <<>>)
             failed == fault \in Range(plan)
         IN  Outcome(Issued(plan, fault),
                     IF failed THEN "LibraryError" ELSE "none",
                     FALSE,
                     PyBool(~failed /\ el.val # 0))
    ELSE IF ~Truthy(el) THEN Outcome(pre, "none", FALSE, PyBool(FALSE))
    ELSE IF ~HasAttr(el, "exists") THEN Outcome(pre, "AttributeError", FALSE, PyBool(FALSE))
    ELSE Outcome(pre \o <<"exists", gesture>>, "none", FALSE, PyBool(TRUE))

\* click: el = d(<kind>=selector).wait(timeout=timeout)
click(selector_type, el, fault) ==
    IF fault = "connect" THEN Outcome(<<"connect">>, "LibraryError", FALSE, PyBool(FALSE))
    ELSE IF selector_type \notin ValidSelectorTypes
    THEN Outcome(<<"connect">>, "ValueError", FALSE, PyBool(FALSE))
    ELSE IF fault = "wait"
    THEN Outcome(<<"connect", "wait">>, "LibraryError", FALSE, PyBool(FALSE))
    ELSE ElementGesture(<<"connect", "wait">>, el, "click", fault)

\* A long_click that issues the gesture without asking whether the element
\* exists.
long_click_unchecked(selector_type, el, fault) ==
    IF fault = "connect" THEN Outcome(<<"connect">>, "LibraryError", FALSE, PyBool(FALSE))
    ELSE IF selector_type \notin ValidSelectorTypes
    THEN Outcome(<<"connect">>, "ValueError", FALSE, PyBool(FALSE))
    ELSE ElementGesture(<<"connect">>, PyUiObject(1), "long_click", fault)

\* long_click: el = d(<kind>=selector); no wait.
long_click(selector_type, el, fault) ==
    IF fault = "connect" THEN Outcome(<<"connect">>, "LibraryError", FALSE, PyBool(FALSE))
    ELSE IF selector_type \notin ValidSelectorTypes
    THEN Outcome(<<"connect">>, "ValueError", FALSE, PyBool(FALSE))
    ELSE ElementGesture(<<"connect">>, el, "long_click", fault)

\* A drag that takes a kind it does not know as text.
drag_defaulting(selector_type, el, fault) ==
    IF fault = "connect" THEN Outcome(<<"connect">>, "LibraryError", FALSE, PyBool(FALSE))
    ELSE ElementGesture(<<"connect">>, el, "drag_to", fault)

\* drag: el = d(<kind>=selector); no wait.
drag(selector_type, el, fault) ==
    IF fault = "connect" THEN Outcome(<<"connect">>, "LibraryError", FALSE, PyBool(FALSE))
    ELSE IF selector_type \notin ValidSelectorTypes
    THEN Outcome(<<"connect">>, "ValueError", FALSE, PyBool(FALSE))
    ELSE ElementGesture(<<"connect">>, el, "drag_to", fault)

\* The descriptor get_element_info builds from el.info.
ElementInfo ==
    [text |-> "OK", resourceId |-> "com.app:id/ok", description |-> "",
     className |-> "android.widget.Button", enabled |-> TRUE, clickable |-> TRUE,
     bounds |-> "[0,0][10,10]", selected |-> FALSE, focused |-> FALSE]

\* get_element_info: el = d(<kind>=selector).wait(timeout=timeout);
\* if el and el.exists: info = el.info; return {...}; return {}; except: return {}
get_element_info(selector_type, el, fault) ==
    IF fault = "connect" THEN Outcome(<<"connect">>, "LibraryError", FALSE, PyDict(EmptyDict))
    ELSE IF selector_type \notin ValidSelectorTypes
    THEN Outcome(<<"connect">>, "ValueError", FALSE, PyDict(EmptyDict))
    ELSE IF fault = "wait"
    THEN Outcome(<<"connect", "wait">>, "LibraryError", FALSE, PyDict(EmptyDict))
    ELSE LET g == ElementGesture(<<"connect", "wait">>, el, "info", fault)
         IN  Outcome(g.calls, g.exc, FALSE,
                     IF g.ret.val THEN PyDict(ElementInfo) ELSE PyDict(EmptyDict))

\* `return el is not None and el.exists` of the description branches.
NotNoneAndExists(pre, el, fault) ==
    IF IsNone(el) THEN Outcome(pre, "none", FALSE, PyBool(FALSE))
    ELSE IF ~HasAttr(el, "exists") THEN Outcome(pre, "AttributeError", FALSE, PyBool(FALSE))
    ELSE LET plan == pre \o <<"exists">>
         IN  Outcome(Issued(plan, fault),
                     IF fault = "exists" THEN "LibraryError" ELSE "none",
                     FALSE,
                     PyBool(fault # "exists" /\ el.val # 0))

\* wait_for_element: the text and resourceId branches return the value of
\* UiObject.wait; the description branch tests it with NotNoneAndExists.
wait_for_element(selector_type, el, fault) ==
    IF fault = "connect" THEN Outcome(<<"connect">>, "LibraryError", FALSE, PyBool(FALSE))
    ELSE IF selector_type \notin ValidSelectorTypes
    THEN Outcome(<<"connect">>, "ValueError", FALSE, PyBool(FALSE))
    ELSE IF fault = "wait"
    THEN Outcome(<<"connect", "wait">>, "LibraryError", FALSE, PyBool(FALSE))
    ELSE IF selector_type \in {"text", "resourceId"}
    THEN Outcome(<<"connect", "wait">>, "none", FALSE, el)
    ELSE NotNoneAndExists(<<"connect", "wait">>, el, fault)

\* A scroll_to whose dispatch on the kind stands outside the try block.
scroll_to_unguarded(selector_type, el, fault) ==
    IF fault = "connect" THEN Outcome(<<"connect">>, "LibraryError", FALSE, PyBool(FALSE))
    ELSE IF selector_type \notin ValidSelectorTypes
    THEN Outcome(<<"connect">>, "ValueError", TRUE, PyNone)
    ELSE IF fault = "scroll.to"
    THEN Outcome(<<"connect", "scroll.to">>, "LibraryError", FALSE, PyBool(FALSE))
    ELSE Outcome(<<"connect", "scroll.to">>, "none", FALSE, el)

\* scroll_to: as wait_for_element, on d(scrollable=True).scroll.to(...).
scroll_to(selector_type, el, fault) ==
    IF fault = "connect" THEN Outcome(<<"connect">>, "LibraryError", FALSE, PyBool(FALSE))
    ELSE IF selector_type \notin ValidSelectorTypes
    THEN Outcome(<<"connect">>, "ValueError", FALSE, PyBool(FALSE))
    ELSE IF fault = "scroll.to"
    THEN Outcome(<<"connect", "scroll.to">>, "LibraryError", FALSE, PyBool(FALSE))
    ELSE IF selector_type \in {"text", "resourceId"}
    THEN Outcome(<<"connect", "scroll.to">>, "none", FALSE, el)
    ELSE NotNoneAndExists(<<"connect", "scroll.to">>, el, fault)

\* Whether a handler that waits on UiObject.wait reaches the wait.
ReachesWait(selector_type, fault) ==
    fault \notin {"connect", "wait"} /\ selector_type \in ValidSelectorTypes

-----------------------------------------------------------------------------
(* start_app and wait_for_screen_on.                                       *)

\* Device.app_wait(package, front=True): the pid once the app is in front,
\* 0 when the wait ends without it.
app_wait(isFront) == IF isFront THEN PyInt(4711) ELSE PyInt(0)

\* A start_app that starts the app a second time when the first start raises.
start_app_retrying(wait, pid, fault) ==
    LET plan == IF wait THEN <<"connect", "app_start", "app_wait">>
                ELSE <<"connect", "app_start">>
        failed == fault \in Range(plan)
    IN  Outcome(IF fault = "app_start" THEN <<"connect", "app_start", "app_start">>
                ELSE Issued(plan, fault),
                IF failed THEN "LibraryError" ELSE "none",
                FALSE,
                IF failed THEN PyBool(FALSE)
                ELSE IF wait THEN PyBool(~IsNone(pid)) ELSE PyBool(TRUE))

\* start_app: d.app_start(pkg); if wait: pid = d.app_wait(pkg, front=True);
\* return pid is not None; return True; except: return False
start_app(wait, pid, fault) ==
    LET plan == IF wait THEN <<"connect", "app_start", "app_wait">>
                ELSE <<"connect", "app_start">>
        failed == fault \in Range(plan)
    IN  Outcome(Issued(plan, fault),
                IF failed THEN "LibraryError" ELSE "none",
                FALSE,
                IF failed THEN PyBool(FALSE)
                ELSE IF wait THEN PyBool(~IsNone(pid)) ELSE PyBool(TRUE))

StartAppReachesWait(wait, fault) ==
    wait /\ fault \notin {"connect", "app_start", "app_wait"}

\* Device.screen_on() wakes the screen and returns None.
Device_screen_on == PyNone

\* asyncio.sleep(1)
SleepInterval == 1

\* One turn of `while not d.screen_on(): await asyncio.sleep(1)`; no
\* try/except: an exception leaves the handler.
\* "raise": the poll raised; "sleep": the loop sleeps; "return": the loop ends.
wait_for_screen_on_poll(fault) ==
    IF fault = "screen_on" THEN "raise"
    ELSE IF ~Truthy(Device_screen_on) THEN "sleep"
    ELSE "return"

-----------------------------------------------------------------------------
(* Dictionary-returning tools.                                             *)

\* d.serial or device_id
SerialOr(serial, device_id) == IF serial # "" THEN PyStr(serial) ELSE device_id

ConnectResponse(success, device_info, error, device_id) ==
    PyDict([device_id |-> device_id, success |-> success,
            device_info |-> device_info, error |-> error])

\* The seven fields connect_device reads from d.info; d.info carries none of
\* them but productName, so the others take their defaults.
ConnectDeviceInfo ==
    [serial |-> "", manufacturer |-> "", model |-> "", version |-> "", sdk |-> 0,
     display |-> "", product |-> "sdk_gphone"]

\* A connect_device that connects whether or not the bridge lists a ready
\* device.
connect_device_unlisted(device_id, found, stdout, serial, fault, msg) ==
    IF ~found
    THEN Outcome(<<"which">>, "none", FALSE,
                 ConnectResponse(FALSE, EmptyDict,
                                 PyStr("ADB is not available in PATH"), device_id))
    ELSE IF fault = "adb devices"
    THEN Outcome(<<"which", "adb devices">>, "LibraryError", FALSE,
                 ConnectResponse(FALSE, EmptyDict,
                                 PyStr("Failed to check connected devices via ADB"),
                                 device_id))
    ELSE LET plan == <<"which", "adb devices", "connect", "info">>
         IN  IF fault \in {"connect", "info"}
             THEN Outcome(Issued(plan, fault), "LibraryError", FALSE,
                          ConnectResponse(FALSE, EmptyDict,
                                          PyStr("Failed to connect to device: " \o msg),
                                          device_id))
             ELSE Outcome(plan, "none", FALSE,
                          ConnectResponse(TRUE, ConnectDeviceInfo, PyNone,
                                          SerialOr(serial, device_id)))

\* A connect_device whose failure response still carries a device_info.
connect_device_partial(device_id, found, stdout, serial, fault, msg) ==
    Outcome(<<"which">>, "none", FALSE,
            ConnectResponse(FALSE, ConnectDeviceInfo,
                            PyStr("ADB is not available in PATH"), device_id))

connect_device(device_id, found, stdout, serial, fault, msg) ==
    IF ~found
    THEN Outcome(<<"which">>, "none", FALSE,
                 ConnectResponse(FALSE, EmptyDict,
                                 PyStr("ADB is not available in PATH"), device_id))
    ELSE IF fault = "adb devices"
    THEN Outcome(<<"which", "adb devices">>, "LibraryError", FALSE,
                 ConnectResponse(FALSE, EmptyDict,
                                 PyStr("Failed to check connected devices via ADB"),
                                 device_id))
    ELSE IF ConnectDevices(stdout) = <<>>
    THEN Outcome(<<"which", "adb devices">>, "none", FALSE,
                 ConnectResponse(FALSE, EmptyDict,
                                 PyStr("No Android devices connected. Please connect a device and ensure USB debugging is enabled."),
                                 device_id))
    ELSE LET plan == <<"which", "adb devices", "connect", "info">>
         IN  IF fault \in {"connect", "info"}
             THEN Outcome(Issued(plan, fault), "LibraryError", FALSE,
                          ConnectResponse(FALSE, EmptyDict,
                                          PyStr("Failed to connect to device: " \o msg),
                                          device_id))
             ELSE Outcome(plan, "none", FALSE,
                          ConnectResponse(TRUE, ConnectDeviceInfo, PyNone,
                                          SerialOr(serial, device_id)))

\* The ten fields of get_device_info; is_screen_on holds what d.screen_on()
\* returned.
DetailedDeviceInfo(serial) ==
    [serial |-> serial, manufacturer |-> "", model |-> "", version |-> "",
     sdk |-> 0, product |-> "sdk_gphone", resolution |-> "1080x1920",
     battery |-> "level=80", wifi_ip |-> "10.0.0.2", is_screen_on |-> Device_screen_on]

get_device_info(device_id, serial, fault, msg) ==
    LET plan == <<"connect", "info", "window_size", "battery_info", "wlan_ip", "screen_on">>
    IN  IF fault \in Range(plan)
        THEN Outcome(Issued(plan, fault), "LibraryError", FALSE,
                     ConnectResponse(FALSE, EmptyDict,
                                     PyStr("Failed to get device info: " \o msg),
                                     device_id))
        ELSE Outcome(plan, "none", FALSE,
                     ConnectResponse(TRUE, DetailedDeviceInfo(serial), PyNone,
                                     SerialOr(serial, device_id)))

AppsResponse(success, apps, count, error, device_id) ==
    PyDict([device_id |-> device_id, success |-> success, error |-> error,
            apps |-> apps, count |-> count])

\* What d.app_list() may return.
AppLists == {<<>>, <<"com.android.settings">>, <<"com.android.settings", "com.example.app">>}

get_installed_apps(device_id, found, serial, apps, fault, msg) ==
    IF ~found
    THEN Outcome(<<"which">>, "none", FALSE,
                 AppsResponse(FALSE, <<>>, 0, PyStr("ADB is not available in PATH"),
                              device_id))
    ELSE LET plan == <<"which", "connect", "app_list">>
         IN  IF fault \in {"connect", "app_list"}
             THEN Outcome(Issued(plan, fault), "LibraryError", FALSE,
                          AppsResponse(FALSE, <<>>, 0,
                                       PyStr("Failed to get installed apps: " \o msg),
                                       device_id))
             ELSE Outcome(plan, "none", FALSE,
                          AppsResponse(TRUE, apps, Len(apps), PyNone,
                                       SerialOr(serial, device_id)))

StatusResponse(adb_available, connected_devices, device_connected, device_info, screen_on_flag, error, ready_for_automation) ==
    PyDict([screen_on |-> screen_on_flag, device_info |-> device_info, error |-> error,
            adb_available |-> adb_available, connected_devices |-> connected_devices,
            device_connected |-> device_connected,
            ready_for_automation |-> ready_for_automation])

\* The five fields get_device_status reads from d.info.
StatusDeviceInfo ==
    [serial |-> "", manufacturer |-> "", model |-> "", version |-> "", sdk |-> 0]

\* A status that calls the device ready as soon as the bridge lists one,
\* whether or not the connection that follows succeeds.
get_device_status_listed_is_ready(found, stdout, fault, msg) ==
    LET devices == ParseDevices(stdout)
        plan == <<"which", "adb devices", "connect", "info", "screen_on">>
        failed == fault \in Range(plan) \ {"which"}
    IN  IF ~found \/ fault = "adb devices" \/ devices = <<>>
        THEN Outcome(<<"which">>, "none", FALSE,
                     StatusResponse(found, <<>>, FALSE, EmptyDict, PyBool(FALSE),
                                    PyStr("No devices connected."), FALSE))
        ELSE Outcome(Issued(plan, fault), IF failed THEN "LibraryError" ELSE "none", FALSE,
                     StatusResponse(TRUE, devices, ~failed,
                                    IF failed THEN EmptyDict ELSE StatusDeviceInfo,
                                    Device_screen_on,
                                    IF failed THEN PyStr("Device connection failed: " \o msg)
                                    ELSE PyNone,
                                    TRUE))

get_device_status(found, stdout, fault, msg) ==
    IF ~found
    THEN Outcome(<<"which">>, "none", FALSE,
                 StatusResponse(FALSE, <<>>, FALSE, EmptyDict, PyBool(FALSE),
                                PyStr("ADB not available in PATH. Please install Android SDK platform-tools."),
                                FALSE))
    ELSE IF fault = "adb devices"
    THEN Outcome(<<"which", "adb devices">>, "LibraryError", FALSE,
                 StatusResponse(TRUE, <<>>, FALSE, EmptyDict, PyBool(FALSE),
                                PyStr("Failed to check connected devices: " \o msg),
                                FALSE))
    ELSE LET devices == StatusDevices(stdout)
             plan == <<"which", "adb devices", "connect", "info", "screen_on">>
         IN  IF devices = <<>>
             THEN Outcome(<<"which", "adb devices">>, "none", FALSE,
                          StatusResponse(TRUE, devices, FALSE, EmptyDict, PyBool(FALSE),
                                         PyStr("No devices connected. Please connect device and enable USB debugging."),
                                         FALSE))
             ELSE IF fault \in {"connect", "info"}
             THEN Outcome(Issued(plan, fault), "LibraryError", FALSE,
                          StatusResponse(TRUE, devices, FALSE, EmptyDict, PyBool(FALSE),
                                         PyStr("Device connection failed: " \o msg),
                                         FALSE))
             ELSE IF fault = "screen_on"
             THEN Outcome(plan, "LibraryError", FALSE,
                          StatusResponse(TRUE, devices, TRUE, StatusDeviceInfo,
                                         PyBool(FALSE),
                                         PyStr("Device connection failed: " \o msg),
                                         FALSE))
             ELSE Outcome(plan, "none", FALSE,
                          StatusResponse(TRUE, devices, TRUE, StatusDeviceInfo,
                                         Device_screen_on, PyNone, TRUE))

ListResponse(adb_exists, devices, error) ==
    PyDict([error |-> error, devices |-> devices, adb_exists |-> adb_exists])

\* A listing that answers for a failed list command as for a missing
\* executable.
check_adb_and_list_devices_blaming_path(found, stdout, fault, msg) ==
    IF ~found
    THEN Outcome(<<"which">>, "none", FALSE,
                 ListResponse(FALSE, <<>>, PyStr("adb command not found in PATH")))
    ELSE IF fault = "adb devices"
    THEN Outcome(<<"which", "adb devices">>, "LibraryError", FALSE,
                 ListResponse(FALSE, <<>>, PyStr(msg)))
    ELSE Outcome(<<"which", "adb devices">>, "none", FALSE,
                 ListResponse(TRUE, ParseDevices(stdout), PyNone))

check_adb_and_list_devices(found, stdout, fault, msg) ==
    IF ~found
    THEN Outcome(<<"which">>, "none", FALSE,
                 ListResponse(FALSE, <<>>, PyStr("adb command not found in PATH")))
    ELSE IF fault = "adb devices"
    THEN Outcome(<<"which", "adb devices">>, "LibraryError", FALSE,
                 ListResponse(TRUE, <<>>, PyStr(msg)))
    ELSE Outcome(<<"which", "adb devices">>, "none", FALSE,
                 ListResponse(TRUE, ParseDevices(stdout), PyNone))

-----------------------------------------------------------------------------
(* Registration.  The server instance is the sequence of the names        *)
(* registered on it; @mcp.tool(name=...) adds one.                         *)

Tool(mcp, name) == Append(mcp, name)

register_device_tools(mcp) ==
    Tool(Tool(Tool(Tool(Tool(mcp, "mcp_health"), "get_device_status"),
                   "connect_device"), "get_device_info"),
         "check_adb_and_list_devices")

register_app_tools(mcp) ==
    Tool(Tool(Tool(Tool(Tool(Tool(mcp, "get_installed_apps"), "get_current_app"),
                        "start_app"), "stop_app"), "stop_all_apps"),
         "clear_app_data")

register_screen_tools(mcp) ==
    Tool(Tool(Tool(Tool(mcp, "screen_on"), "screen_off"), "unlock_screen"),
         "wait_for_screen_on")

register_input_tools(mcp) ==
    Tool(Tool(Tool(Tool(Tool(Tool(mcp, "press_key"), "click"), "long_click"),
                   "swipe"), "drag"),
         "send_text")

register_inspection_tools(mcp) ==
    Tool(Tool(Tool(Tool(Tool(mcp, "get_element_info"), "wait_for_element"),
                   "scroll_to"), "screenshot"),
         "dump_hierarchy")

register_advanced_tools(mcp) == Tool(Tool(mcp, "get_toast"), "wait_activity")

\* A register_all_tools that registers the screen tools before the app tools.
register_all_tools_reordered(mcp) ==
    register_advanced_tools(register_inspection_tools(register_input_tools(
        register_app_tools(register_screen_tools(register_device_tools(mcp))))))

register_all_tools(mcp) ==
    register_advanced_tools(register_inspection_tools(register_input_tools(
        register_screen_tools(register_app_tools(register_device_tools(mcp))))))

-----------------------------------------------------------------------------
(* The state machine.                                                      *)

\* An invocation at its start: the arguments and inputs at their defaults,
\* nothing issued, nothing returned.
\*   found, present0: what the bridge lookup and the device held at the call
\*   lib:             what the handler's library query returned
\*   start, deadline: set while the invocation blocks in a library wait
\*   elapsed:         the time the invocation took
NewCall(tool) ==
    [rows |-> <<>>, fault |-> "none", device_id |-> PyNone,
     calls |-> <<>>, exc |-> "none", raised |-> FALSE, ret |-> PyNone,
     selector_type |-> "text", wait |-> FALSE, found |-> FALSE, msg |-> "",
     tool |-> tool, pc |-> "done", timeout |-> 0, present0 |-> FALSE, lib |-> PyNone,
     start |-> 0, deadline |-> 0, elapsed |-> 0]

Idle == [NewCall("none") EXCEPT !.pc = "idle"]

Finish(c, out) ==
    [c EXCEPT !.pc = "done", !.calls = out.calls, !.exc = out.exc,
              !.raised = out.raised, !.ret = out.ret,
              !.elapsed = IF c.pc = "waiting" THEN now - c.start ELSE 0,
              !.start = 0, !.deadline = 0]

Block(c, issued, until) ==
    [c EXCEPT !.pc = "waiting", !.calls = issued, !.start = now, !.deadline = until]

\* A device on which screen_on acts as the power key does: it toggles.
ScreenAfterToggling(done) ==
    IF "screen_off" \in done THEN FALSE
    ELSE IF "screen_on" \in done THEN ~screenOn
    ELSE IF "unlock" \in done THEN TRUE
    ELSE screenOn

\* What the calls that returned did to the device.
ScreenAfter(done) ==
    IF "screen_off" \in done THEN FALSE
    ELSE IF done \cap {"screen_on", "unlock"} # {} THEN TRUE
    ELSE screenOn

FrontAfter(done) ==
    IF done \cap {"app_stop", "app_stop_all"} # {} THEN FALSE ELSE front

\* A server whose pending poll holds the event loop (a blocking sleep).
FreeOfPoll == call.pc # "waiting" /\ poll.pc # "waiting"

\* The server runs a synchronous handler to its end before it serves the
\* next request.
Free == call.pc # "waiting"

\* A handler that runs to its end in one step.
Atomic(c, out) ==
    /\ Free
    /\ c.tool \in Range(registry)
    /\ call' = Finish(c, out)
    /\ screenOn' = ScreenAfter(Completed(out.calls, c.fault))
    /\ front' = FrontAfter(Completed(out.calls, c.fault))
    /\ UNCHANGED <<adb_path, present, now, poll, registry>>

\* The server has served nothing yet.  The bridge is not installed and the
\* device is asleep on its home screen; the environment's steps change that.
Unserved ==
    /\ adb_path = FALSE
    /\ screenOn = FALSE
    /\ present = FALSE
    /\ front = FALSE
    /\ now = 0
    /\ call = Idle
    /\ poll = Idle

\* The server module has been imported: its tools are registered.
Init == Unserved /\ registry = register_all_tools(<<>>)

\* A server instance on which nothing is registered yet.
InitRegister == Unserved /\ registry = <<>>

\* register_all_tools(mcp), as server.py calls it once on the new instance.
RegisterAllTools ==
    /\ registry = <<>>
    /\ registry' = register_all_tools(registry)
    /\ UNCHANGED <<adb_path, screenOn, present, front, now, call, poll>>

PressKey == \E f \in Faults(<<"connect", "press">>) :
    Atomic([NewCall("press_key") EXCEPT !.fault = f], press_key(f))
Swipe == \E f \in Faults(<<"connect", "swipe">>) :
    Atomic([NewCall("swipe") EXCEPT !.fault = f], swipe(f))
SendText == \E f \in Faults(<<"connect", "send_keys">>) :
    Atomic([NewCall("send_text") EXCEPT !.fault = f], send_text(f))
Screenshot == \E f \in Faults(<<"connect", "screenshot">>) :
    Atomic([NewCall("screenshot") EXCEPT !.fault = f], screenshot(f))
StopApp == \E f \in Faults(<<"connect", "app_stop">>) :
    Atomic([NewCall("stop_app") EXCEPT !.fault = f], stop_app(f))
StopAllApps == \E f \in Faults(<<"connect", "app_stop_all">>) :
    Atomic([NewCall("stop_all_apps") EXCEPT !.fault = f], stop_all_apps(f))
ClearAppData == \E f \in Faults(<<"connect", "app_clear">>) :
    Atomic([NewCall("clear_app_data") EXCEPT !.fault = f], clear_app_data(f))
ScreenOn == \E f \in Faults(<<"connect", "screen_on">>) :
    Atomic([NewCall("screen_on") EXCEPT !.fault = f], screen_on(f))
ScreenOff == \E f \in Faults(<<"connect", "screen_off">>) :
    Atomic([NewCall("screen_off") EXCEPT !.fault = f], screen_off(f))

UnlockScreen == \E f \in Faults(<<"connect", "info", "screen_on", "unlock">>) :
    Atomic([NewCall("unlock_screen") EXCEPT !.fault = f, !.lib = PyBool(screenOn)],
           unlock_screen(screenOn, f))

\* unlock_screen where requests are served side by side (worker threads, or
\* a second server on the same device): the handler takes no lock, so it is
\* one step up to the read of d.info["screenOn"] and one from there on.
UnlockScreenRead ==
    \E f \in Faults(<<"connect", "info", "screen_on", "unlock">>) :
        /\ Free
        /\ "unlock_screen" \in Range(registry)
        /\ LET c == [NewCall("unlock_screen") EXCEPT !.fault = f, !.lib = PyBool(screenOn)]
           IN  call' = IF f \in {"connect", "info"}
                       THEN Finish(c, unlock_screen(screenOn, f))
                       ELSE Block(c, <<"connect", "info">>, now)
        /\ UNCHANGED <<adb_path, screenOn, present, front, now, poll, registry>>

\* A handler that reads the screen state again as it issues the gesture.
UnlockScreenGestureRereading ==
    /\ call.pc = "waiting"
    /\ call.tool = "unlock_screen"
    /\ LET out == unlock_screen(screenOn, call.fault)
       IN  /\ call' = Finish(call, out)
           /\ screenOn' = ScreenAfter(Completed(out.calls, call.fault))
    /\ UNCHANGED <<adb_path, present, front, now, poll, registry>>

\* The rest of unlock_screen: it acts on the value it read.
UnlockScreenGesture ==
    /\ call.pc = "waiting"
    /\ call.tool = "unlock_screen"
    /\ LET out == unlock_screen(call.lib.val, call.fault)
       IN  /\ call' = Finish(call, out)
           /\ screenOn' = ScreenAfter(Completed(out.calls, call.fault))
    /\ UNCHANGED <<adb_path, present, front, now, poll, registry>>

\* screen_off, served while an unlock_screen is between its read and its
\* gesture; poll holds the invocation served beside the one in call.
ScreenOffBeside ==
    \E f \in Faults(<<"connect", "screen_off">>) :
        /\ call.pc = "waiting"
        /\ call.tool = "unlock_screen"
        /\ poll.pc # "waiting"
        /\ "screen_off" \in Range(registry)
        /\ poll' = Finish([NewCall("screen_off") EXCEPT !.fault = f], screen_off(f))
        /\ screenOn' = ScreenAfter(Completed(screen_off(f).calls, f))
        /\ UNCHANGED <<adb_path, present, front, now, call, registry>>

McpHealth == Atomic(NewCall("mcp_health"), mcp_health)

GetCurrentApp == \E f \in Faults(<<"connect", "app_current">>) :
    Atomic([NewCall("get_current_app") EXCEPT !.fault = f, !.lib = app_current(front)],
           get_current_app(front, f))

DumpHierarchy == \E f \in Faults(<<"connect", "dump_hierarchy">>) :
    Atomic([NewCall("dump_hierarchy") EXCEPT !.fault = f],
           dump_hierarchy("<hierarchy/>", f))

\* get_message and wait_activity block inside the library; what they return
\* is the library's answer.
GetToast ==
    \E f \in Faults(<<"connect", "toast.get_message">>),
       m \in {PyNone, PyStr(""), PyStr("Saved")} :
        Atomic([NewCall("get_toast") EXCEPT !.fault = f, !.lib = m], get_toast(m, f))

WaitActivity ==
    \E f \in Faults(<<"connect", "wait_activity">>), r \in BOOLEAN :
        Atomic([NewCall("wait_activity") EXCEPT !.fault = f, !.lib = PyBool(r)],
               wait_activity(r, f))

\* The UiObject a selector call yields, as the device answers for it now.
Lookup == PyUiObject(IF present THEN 1 ELSE 0)

LongClick ==
    \E k \in SelectorTypes, f \in Faults(<<"connect", "count", "exists", "long_click">>) :
        Atomic([NewCall("long_click") EXCEPT !.selector_type = k, !.fault = f,
                                             !.present0 = present, !.lib = Lookup],
               long_click(k, Lookup, f))

Drag ==
    \E k \in SelectorTypes, f \in Faults(<<"connect", "count", "exists", "drag_to">>) :
        Atomic([NewCall("drag") EXCEPT !.selector_type = k, !.fault = f,
                                       !.present0 = present, !.lib = Lookup],
               drag(k, Lookup, f))

\* scroll.to scrolls until the element is on screen or the list ends; what it
\* finds is the library's answer.
ScrollTo ==
    \E k \in SelectorTypes, f \in Faults(<<"connect", "scroll.to", "exists">>),
       reached \in BOOLEAN :
        Atomic([NewCall("scroll_to") EXCEPT !.selector_type = k, !.fault = f,
                                            !.lib = PyBool(reached)],
               scroll_to(k, PyBool(reached), f))

\* A handler that calls UiObject.wait(timeout): it runs to the wait and
\* blocks there, or ends before it.
WaitingCall(tool, k, t, f, out) ==
    /\ Free
    /\ tool \in Range(registry)
    /\ now + t <= MaxTime
    /\ LET c == [NewCall(tool) EXCEPT !.selector_type = k, !.timeout = t, !.fault = f,
                                      !.present0 = present]
       IN  call' = IF ReachesWait(k, f)
                   THEN Block(c, <<"connect", "wait">>, now + t)
                   ELSE Finish(c, out)
    /\ UNCHANGED <<adb_path, screenOn, present, front, now, poll, registry>>

\* UiObject.wait returns as soon as the element exists, and when its timeout
\* has passed.
WaitOver == present \/ now >= call.deadline

\* UiObject.wait(timeout) returns a bool: whether the element exists.
UiObject_wait == PyBool(present)

WaitReturns(tool, out) ==
    /\ call.pc = "waiting"
    /\ call.tool = tool
    /\ WaitOver
    /\ call' = Finish([call EXCEPT !.lib = UiObject_wait], out)
    /\ UNCHANGED <<adb_path, screenOn, present, front, now, poll, registry>>

Click ==
    \E k \in SelectorTypes, t \in Timeouts,
       f \in Faults(<<"connect", "wait", "exists", "click">>) :
        WaitingCall("click", k, t, f, click(k, PyNone, f))

ClickResume ==
    WaitReturns("click", click(call.selector_type, UiObject_wait, call.fault))

GetElementInfo ==
    \E k \in SelectorTypes, t \in Timeouts,
       f \in Faults(<<"connect", "wait", "exists", "info">>) :
        WaitingCall("get_element_info", k, t, f, get_element_info(k, PyNone, f))

GetElementInfoResume ==
    WaitReturns("get_element_info",
                get_element_info(call.selector_type, UiObject_wait, call.fault))

WaitForElement ==
    \E k \in SelectorTypes, t \in Timeouts,
       f \in Faults(<<"connect", "wait", "exists">>) :
        WaitingCall("wait_for_element", k, t, f, wait_for_element(k, PyNone, f))

WaitForElementResume ==
    WaitReturns("wait_for_element",
                wait_for_element(call.selector_type, UiObject_wait, call.fault))

\* start_app blocks in app_wait when wait is set.
StartApp ==
    \E w \in BOOLEAN, f \in Faults(<<"connect", "app_start", "app_wait">>) :
        /\ Free
        /\ "start_app" \in Range(registry)
        /\ now + AppWaitBudget <= MaxTime
        /\ LET c == [NewCall("start_app") EXCEPT !.wait = w, !.fault = f]
           IN  call' = IF StartAppReachesWait(w, f)
                       THEN Block(c, <<"connect", "app_start", "app_wait">>,
                                  now + AppWaitBudget)
                       ELSE Finish(c, start_app(w, PyNone, f))
        /\ UNCHANGED <<adb_path, screenOn, present, front, now, poll, registry>>

\* app_wait returns once the app is in front, and when its budget has passed.
AppWaitOver == front \/ now >= call.deadline

StartAppResume ==
    /\ call.pc = "waiting"
    /\ call.tool = "start_app"
    /\ AppWaitOver
    /\ call' = Finish([call EXCEPT !.lib = app_wait(front)],
                      start_app(call.wait, app_wait(front), call.fault))
    /\ UNCHANGED <<adb_path, screenOn, present, front, now, poll, registry>>

\* wait_for_screen_on: d = u2.connect(device_id), then one turn of the loop.
\* c is the invocation so far, f the call the environment makes raise.
PollTurn(c, f) ==
    LET step == wait_for_screen_on_poll(f)
        issued == c.calls \o <<"screen_on">>
        d == [c EXCEPT !.fault = f, !.pc = "waiting",
                       !.start = IF c.pc = "waiting" THEN c.start ELSE now]
    IN  IF step = "raise"
        THEN Finish(d, Outcome(issued, "LibraryError", TRUE, PyNone))
        ELSE IF step = "sleep"
        THEN [d EXCEPT !.calls = issued, !.deadline = now + SleepInterval]
        ELSE Finish(d, Outcome(issued, "none", FALSE, PyStr("Screen is now on")))

\* A request that passes no device_id.
Absent == [type |-> "absent", val |-> ""]

\* The device_id parameter is `Optional[str] = None` in every tool that has
\* one, but `device_id: str` in wait_for_screen_on.
DeviceIdRequired(tool) == tool = "wait_for_screen_on"

\* The device_id the handler runs with; Absent when the call cannot be made
\* for want of the argument.
BindDeviceId(tool, arg) ==
    IF arg # Absent THEN arg
    ELSE IF DeviceIdRequired(tool) THEN Absent
    ELSE PyNone

WaitForScreenOn ==
    \E arg \in {Absent, PyStr("S1")}, f \in Faults(<<"connect", "screen_on">>) :
        /\ Free
        /\ "wait_for_screen_on" \in Range(registry)
        /\ poll.pc # "waiting"
        /\ now + SleepInterval <= MaxTime
        /\ arg = Absent => f = "none"
        /\ LET d == BindDeviceId("wait_for_screen_on", arg)
               c == [NewCall("wait_for_screen_on") EXCEPT !.device_id = d, !.fault = f]
           IN  IF d = Absent
               THEN /\ poll' = Finish(c, Outcome(<<>>, "TypeError", TRUE, PyNone))
                    /\ screenOn' = screenOn
               ELSE IF f = "connect"
               THEN /\ poll' = Finish(c, Outcome(<<"connect">>, "LibraryError", TRUE, PyNone))
                    /\ screenOn' = screenOn
               ELSE /\ poll' = PollTurn([c EXCEPT !.calls = <<"connect">>], f)
                    /\ screenOn' = ScreenAfter(Completed(<<"screen_on">>, f))
        /\ UNCHANGED <<adb_path, present, front, now, call, registry>>

\* The sleep is over and the event loop is free: the loop takes its next turn.
PollDue == poll.pc = "waiting" /\ now >= poll.deadline /\ Free

WaitForScreenOnWake ==
    \E f \in Faults(<<"screen_on">>) :
        /\ PollDue
        /\ poll' = PollTurn(poll, f)
        /\ screenOn' = ScreenAfter(Completed(<<"screen_on">>, f))
        /\ UNCHANGED <<adb_path, present, front, now, call, registry>>

\* The bridge prints its list only when it was found and ran.
RowsFor(f) == IF adb_path /\ f # "adb devices" THEN RowSeqs ELSE {<<>>}

GetDeviceStatus ==
    \E f \in Faults(<<"adb devices", "connect", "info", "screen_on">>) :
      \E rows \in RowsFor(f), m \in ExcMsgs(f) :
        Atomic([NewCall("get_device_status") EXCEPT !.fault = f, !.rows = rows, !.msg = m,
                                                    !.found = adb_path],
               get_device_status(adb_path, AdbOutput(rows), f, m))

\* u2.connect(None) reaches the first device the bridge lists as ready.
FirstSerial(d, rows) ==
    LET devices == ParseDevices(AdbOutput(rows))
    IN  IF ~IsNone(d) THEN d.val
        ELSE IF devices # <<>> /\ Len(Head(devices)) = 1 THEN Head(devices)[1]
        ELSE ""

ConnectDevice ==
    \E d \in DeviceIds, f \in Faults(<<"adb devices", "connect", "info">>) :
      \E rows \in RowsFor(f), m \in ExcMsgs(f) :
        Atomic([NewCall("connect_device") EXCEPT !.device_id = d, !.fault = f,
                                                 !.rows = rows, !.msg = m,
                                                 !.found = adb_path],
               connect_device(d, adb_path, AdbOutput(rows), FirstSerial(d, rows), f, m))

GetDeviceInfo ==
    \E d \in DeviceIds,
       f \in Faults(<<"connect", "info", "window_size", "battery_info", "wlan_ip",
                      "screen_on">>) :
      \E m \in ExcMsgs(f), sn \in SerialsFor(d, f) :
        Atomic([NewCall("get_device_info") EXCEPT !.device_id = d, !.fault = f, !.msg = m],
               get_device_info(d, sn, f, m))

CheckAdbAndListDevices ==
    \E f \in Faults(<<"adb devices">>) :
      \E rows \in RowsFor(f), m \in ExcMsgs(f) :
        Atomic([NewCall("check_adb_and_list_devices") EXCEPT !.fault = f, !.rows = rows,
                                                             !.msg = m, !.found = adb_path],
               check_adb_and_list_devices(adb_path, AdbOutput(rows), f, m))

GetInstalledApps ==
    \E d \in DeviceIds, f \in Faults(<<"connect", "app_list">>), apps \in AppLists :
      \E m \in ExcMsgs(f), sn \in SerialsFor(d, f) :
        Atomic([NewCall("get_installed_apps") EXCEPT !.device_id = d, !.fault = f,
                                                     !.msg = m, !.found = adb_path],
               get_installed_apps(d, adb_path, sn, apps, f, m))

-----------------------------------------------------------------------------
(* The environment: the clock, the device and the bridge.                  *)

\* A blocked library wait that can return does so before time passes or the
\* device changes again.
WaitDue ==
    /\ call.pc = "waiting"
    /\ IF call.tool = "start_app" THEN AppWaitOver ELSE WaitOver

Tick ==
    /\ now < MaxTime
    /\ ~WaitDue
    /\ ~PollDue
    /\ now' = now + 1
    /\ UNCHANGED <<adb_path, screenOn, present, front, call, poll, registry>>

EnvElement ==
    /\ ~WaitDue
    /\ present' = ~present
    /\ UNCHANGED <<adb_path, screenOn, front, now, call, poll, registry>>

EnvFront ==
    /\ ~WaitDue
    /\ front' = ~front
    /\ UNCHANGED <<adb_path, screenOn, present, now, call, poll, registry>>

EnvScreen ==
    /\ screenOn' = ~screenOn
    /\ UNCHANGED <<adb_path, present, front, now, call, poll, registry>>

EnvBridge ==
    /\ adb_path' = ~adb_path
    /\ UNCHANGED <<screenOn, present, front, now, call, poll, registry>>

-----------------------------------------------------------------------------
(* Specifications.  The tools share no state, so each group of tools is    *)
(* checked with the part of the environment it reads.                      *)

\* The tools that report on the bridge and the devices it lists.
NextBridge ==
    \/ McpHealth \/ GetDeviceStatus \/ CheckAdbAndListDevices
    \/ EnvBridge

\* The tools that answer with a {success, ..., error} dictionary.
NextConnect ==
    \/ ConnectDevice \/ GetDeviceInfo \/ GetInstalledApps
    \/ EnvBridge

\* The synchronous tools that issue one library call.
NextCalls ==
    \/ GetCurrentApp \/ StopApp \/ StopAllApps \/ ClearAppData
    \/ ScreenOn \/ ScreenOff \/ UnlockScreen
    \/ PressKey \/ Swipe \/ SendText \/ Screenshot \/ DumpHierarchy
    \/ GetToast \/ WaitActivity
    \/ EnvFront \/ EnvScreen

\* The tools that select an element or wait inside the library.
NextWaits ==
    \/ StartApp \/ StartAppResume
    \/ Click \/ ClickResume \/ LongClick \/ Drag
    \/ GetElementInfo \/ GetElementInfoResume \/ WaitForElement \/ WaitForElementResume
    \/ ScrollTo
    \/ Tick \/ EnvElement \/ EnvFront

\* The screen tools, with the asynchronous poll.
NextAsync ==
    \/ ScreenOn \/ ScreenOff \/ UnlockScreen \/ WaitForScreenOn \/ WaitForScreenOnWake
    \/ Tick \/ EnvScreen

\* Tools of one, several and repeated device calls, next to the poll.
NextHandles ==
    \/ Swipe \/ GetDeviceInfo \/ UnlockScreen
    \/ WaitForScreenOn \/ WaitForScreenOnWake
    \/ Tick \/ EnvScreen

\* The screen tools where unlock_screen is served beside a screen_off.
NextRace ==
    \/ ScreenOn \/ ScreenOff \/ PressKey
    \/ UnlockScreenRead \/ UnlockScreenGesture \/ ScreenOffBeside

\* Registration, and the single-call tools once they are registered.
NextRegister == RegisterAllTools \/ NextCalls

Next == NextBridge \/ NextConnect \/ NextCalls \/ NextWaits \/ NextAsync

SpecBridge == Init /\ [][NextBridge]_vars
SpecConnect == Init /\ [][NextConnect]_vars
SpecCalls == Init /\ [][NextCalls]_vars
SpecWaits == Init /\ [][NextWaits]_vars
SpecAsync == Init /\ [][NextAsync]_vars
SpecRegister == InitRegister /\ [][NextRegister]_vars
SpecHandles == Init /\ [][NextHandles]_vars
SpecRace == Init /\ [][NextRace]_vars
Spec == Init /\ [][Next]_vars

-----------------------------------------------------------------------------
(* Properties.  Done(c) holds of an invocation that has returned or raised. *)

Done(c, tool) == c.tool = tool /\ c.pc = "done"

\* C1: of all the tools, only get_current_app lets an exception of the
\* connection or of a device call reach the caller; every other invocation,
\* synchronous or asynchronous, returns.
C1_OnlyGetCurrentAppPropagates ==
    \A c \in {call, poll} :
        (c.pc = "done" /\ c.raised /\ c.exc = "LibraryError") =>
            c.tool = "get_current_app"

DictTools == {"connect_device", "get_device_info", "get_installed_apps"}

\* C2: in every response of connect_device, get_device_info and
\* get_installed_apps success is true exactly when error is None; a failed
\* response has a non-empty error string and its payload at the defaults
\* (device_info = {}, apps = [], count = 0); count is always len(apps).
C2_DictResponsesConsistent ==
    (call.tool \in DictTools /\ call.pc = "done") =>
        /\ ~call.raised
        /\ call.ret.type = "dict"
        /\ LET r == call.ret.val
           IN  /\ r.success \in BOOLEAN
               /\ r.success <=> IsNone(r.error)
               /\ ~r.success =>
                    /\ r.error.type = "str"
                    /\ Len(r.error.val) > 0
                    /\ IF call.tool = "get_installed_apps"
                       THEN r.apps = <<>> /\ r.count = 0
                       ELSE r.device_info = EmptyDict
               /\ call.tool = "get_installed_apps" => r.count = Len(r.apps)

\* connect_device failed because u2.connect raised an exception whose message
\* is empty, after the bridge listed a ready device.
C2_Witness ==
    /\ Done(call, "connect_device")
    /\ call.fault = "connect"
    /\ call.msg = ""
    /\ ~call.ret.val.success

SelectorTools ==
    {"click", "long_click", "drag", "get_element_info", "wait_for_element", "scroll_to"}

RECURSIVE ReadyIds(_)
ReadyIds(rows) ==
    IF rows = <<>> THEN <<>>
    ELSE LET r == Head(rows)
         IN  (IF Len(r) = 3 /\ r[3] = "device" THEN << <<r[1]>> >> ELSE <<>>)
             \o ReadyIds(Tail(rows))

\* C4: when the bridge prints a header line followed by rows of identifier
\* and status, the devices check_adb_and_list_devices returns are exactly the
\* identifiers of the rows whose status is "device", in output order; rows
\* of any other status and blank rows contribute nothing.
C4_DevicesAreReadyRows ==
    (Done(call, "check_adb_and_list_devices") /\ call.found /\ call.fault = "none") =>
        /\ call.ret.val.adb_exists
        /\ call.ret.val.devices = ReadyIds(call.rows)

\* The bridge listed a row that is not ready before a ready one.
C4_Witness ==
    /\ Done(call, "check_adb_and_list_devices")
    /\ call.found
    /\ call.fault = "none"
    /\ call.rows = << <<"S2", "\t", "unauthorized">>, <<"S1", "\t", "device">> >>
    /\ call.ret.val.devices = << <<"S1">> >>

\* C5: start_app with wait=True, when the library's wait ends without the
\* app in front, returns False and raises nothing.
C5_StartAppFalseWhenNotInFront ==
    (Done(call, "start_app") /\ call.wait /\ call.fault = "none"
        /\ call.lib.type = "int" /\ call.lib.val = 0) =>
        /\ ~call.raised
        /\ call.ret = PyBool(FALSE)

\* How often a handler issued the library call `name`.
Count(calls, name) == Cardinality({i \in 1..Len(calls) : calls[i] = name})

\* A call with a valid kind on a device whose library calls all return.
Healthy(c) == c.selector_type \in ValidSelectorTypes /\ c.fault = "none"

\* C6: click waits up to its timeout for the element; it returns True exactly
\* when the element existed within the timeout, and then it has issued the
\* click gesture once; when it returns False it has issued no click.
C6_ClickTrueIffElementInTime ==
    (Done(call, "click") /\ Healthy(call)) =>
        /\ ~call.raised
        /\ call.elapsed <= call.timeout
        /\ (call.ret = PyBool(TRUE)) <=> Truthy(call.lib)
        /\ Count(call.calls, "click") = IF call.ret = PyBool(TRUE) THEN 1 ELSE 0

\* C7 (as stated): long_click waits for the element to exist: an invocation
\* that finds the element absent long-clicks it once it appears and returns
\* True, or returns False only after its timeout, at least one time unit,
\* has passed.
C7_LongClickWaits ==
    (Done(call, "long_click") /\ Healthy(call) /\ ~call.present0) =>
        \/ call.ret = PyBool(TRUE) /\ Count(call.calls, "long_click") = 1
        \/ call.elapsed >= 1

\* C7 (amended): long_click looks the element up once, at the moment of the
\* call, and does not wait: it takes no time; it returns True, with one
\* long-press issued, exactly when the element existed at the call, and
\* False with no gesture issued when it did not.
C7_LongClickLooksUpOnce ==
    (Done(call, "long_click") /\ Healthy(call)) =>
        /\ ~call.raised
        /\ call.elapsed = 0
        /\ Count(call.calls, "wait") = 0
        /\ (call.ret = PyBool(TRUE)) <=> call.present0
        /\ Count(call.calls, "long_click") = IF call.present0 THEN 1 ELSE 0

\* long_click returned False for an element that was absent at the call and
\* has appeared since.
C7_Witness ==
    /\ Done(call, "long_click")
    /\ Healthy(call)
    /\ ~call.present0
    /\ present
    /\ call.ret = PyBool(FALSE)

\* C8: press_key, swipe, send_text, screenshot, stop_app, stop_all_apps,
\* clear_app_data, screen_on and screen_off return True if and only if
\* u2.connect and their one library call both returned, and False when
\* either raised; they raise nothing themselves.
C8_BoolToolTrueIffBothCallsReturn ==
    (call.tool \in DOMAIN BoolTools /\ call.pc = "done") =>
        /\ ~call.raised
        /\ call.ret.type = "bool"
        /\ call.ret.val <=>
               {"connect", BoolTools[call.tool]} \subseteq Completed(call.calls, call.fault)
        /\ ~call.ret.val <=> call.exc # "none"

\* stop_app returned False because d.app_stop raised after the connection
\* was made.
C8_Witness ==
    /\ Done(call, "stop_app")
    /\ call.fault = "app_stop"
    /\ call.calls = <<"connect", "app_stop">>
    /\ call.ret = PyBool(FALSE)

\* C9: a get_device_status response never mixes success data with a failure:
\* device_connected is false and device_info is empty whenever error is not
\* None.
C9_StatusNeverMixesDataAndError ==
    Done(call, "get_device_status") =>
        LET r == call.ret.val
        IN  ~IsNone(r.error) => (~r.device_connected /\ r.device_info = EmptyDict)

\* C10: wait_for_element with timeout T returns False, and not before T has
\* passed, when the element never appears; it returns True, without waiting
\* longer than T, when the element appears in time.
C10_WaitForElementHonoursTimeout ==
    (Done(call, "wait_for_element") /\ Healthy(call)) =>
        /\ ~call.raised
        /\ call.elapsed <= call.timeout
        /\ IF Truthy(call.lib)
           THEN call.ret = PyBool(TRUE)
           ELSE call.ret = PyBool(FALSE) /\ call.elapsed = call.timeout

\* An invocation of screen_on during which no call raises.
ScreenOnReturns == Atomic(NewCall("screen_on"), screen_on("none"))

\* C11: screen_on is idempotent: after an invocation that returned True with
\* the screen on, a second invocation on the reachable device returns True
\* as well, raises nothing and leaves the screen on.
C11_ScreenOnIdempotent ==
    [][(Done(call, "screen_on") /\ call.ret = PyBool(TRUE) /\ screenOn /\ ScreenOnReturns)
          => (call'.ret = PyBool(TRUE) /\ ~call'.raised /\ screenOn')]_vars

\* screen_on has returned True and the screen is on: the state between the
\* two invocations, and after the second.
C11_Witness ==
    /\ Done(call, "screen_on")
    /\ call.fault = "none"
    /\ call.ret = PyBool(TRUE)
    /\ screenOn

\* A step in which wait_for_screen_on polls the screen state and the poll
\* does not raise: its first turn or a turn after a sleep.
PollsScreen ==
    /\ poll' # poll
    /\ poll'.tool = "wait_for_screen_on"
    /\ poll'.fault = "none"

\* C12: wait_for_screen_on polls the screen state once per second, without a
\* timeout: a poll that finds the screen on ends the call with "Screen is now
\* on" (so the call returns once the screen is on and stays on), and a poll
\* that finds it off leaves the call pending (so the call never returns
\* while every poll has seen the screen off).
C12_PollReturnsWhenScreenOn ==
    [][PollsScreen =>
          IF screenOn
          THEN poll'.pc = "done" /\ poll'.ret = PyStr("Screen is now on")
          ELSE poll'.pc = "waiting" /\ poll'.deadline = now + SleepInterval]_vars

\* C13: a pending wait_for_screen_on does not block the server: while it
\* sleeps between two polls, another tool invocation can run, and it runs to
\* its end without the poll having returned.
C13_PendingPollDoesNotBlock ==
    (poll.tool = "wait_for_screen_on" /\ poll.pc = "waiting") =>
        /\ ENABLED ScreenOn
        /\ ENABLED ScreenOff
        /\ ENABLED UnlockScreen

\* The poll has taken two turns and sleeps again; screen_off has returned
\* True and the screen is off.
C13_Witness ==
    /\ poll.tool = "wait_for_screen_on"
    /\ poll.pc = "waiting"
    /\ Len(poll.calls) >= 3
    /\ Done(call, "screen_off")
    /\ call.ret = PyBool(TRUE)
    /\ ~screenOn

\* The positions of an invocation's calls that go to the device: all but the
\* bridge lookup, the bridge command and the connection itself.
DeviceCalls(calls) ==
    {i \in 1..Len(calls) : calls[i] \notin {"which", "adb devices", "connect"}}

C15_UnlockScreenSequence ==
    Done(call, "unlock_screen") =>
        /\ ~call.raised
        /\ Count(call.calls, "info") <= 1
        /\ Truthy(call.lib) => Count(call.calls, "screen_on") = 0
        /\ (call.ret = PyBool(TRUE)) =>
               call.calls = IF Truthy(call.lib)
                            THEN <<"connect", "info", "unlock">>
                            ELSE <<"connect", "info", "screen_on", "unlock">>
        /\ (call.exc # "none" /\ call.fault \in {"info", "screen_on"}) =>
               /\ call.ret = PyBool(FALSE)
               /\ Count(call.calls, "unlock") = 0
        /\ (call.ret = PyBool(FALSE)) <=> (call.exc # "none")

\* unlock_screen found the screen off, woke it, unlocked and returned True.
C15_Witness ==
    /\ Done(call, "unlock_screen")
    /\ ~Truthy(call.lib)
    /\ call.calls = <<"connect", "info", "screen_on", "unlock">>
    /\ call.ret = PyBool(TRUE)
    /\ screenOn

\* C16: every tool that targets a device can be invoked without a device
\* identifier: the identifier is then None (the first available device) and
\* no invocation is refused for want of it.
C16_DeviceIdOptional ==
    \A c \in {call, poll} :
        c.tool # "none" =>
            /\ c.device_id.type \in {"NoneType", "str"}
            /\ c.exc # "TypeError"

NineKeys ==
    {"text", "resourceId", "description", "className", "enabled", "clickable",
     "bounds", "selected", "focused"}

\* C17: get_element_info returns the descriptor of exactly nine keys when
\* the element exists within the timeout, and the empty dict when the
\* element is not found, the selector kind is invalid or a call raises; it
\* returns nothing else.
C17_ElementInfoShape ==
    Done(call, "get_element_info") =>
        /\ ~call.raised
        /\ call.ret.type = "dict"
        /\ IF Healthy(call) /\ Truthy(call.lib)
           THEN DOMAIN call.ret.val = NineKeys
           ELSE call.ret = PyDict(EmptyDict)

\* The group each tool belongs to: 1 device, 2 app, 3 screen, 4 input,
\* 5 inspection, 6 advanced.
ToolGroup ==
    [press_key |-> 4, swipe |-> 4, send_text |-> 4, screenshot |-> 5,
     stop_app |-> 2, stop_all_apps |-> 2, clear_app_data |-> 2,
     screen_on |-> 3, screen_off |-> 3, unlock_screen |-> 3,
     get_current_app |-> 2, mcp_health |-> 1, dump_hierarchy |-> 5,
     get_toast |-> 6, wait_activity |-> 6,
     click |-> 4, long_click |-> 4, drag |-> 4,
     get_element_info |-> 5, wait_for_element |-> 5, scroll_to |-> 5,
     start_app |-> 2, connect_device |-> 1, get_device_info |-> 1,
     get_installed_apps |-> 2, get_device_status |-> 1,
     check_adb_and_list_devices |-> 1, wait_for_screen_on |-> 3]

\* C18: once register_all_tools has run on a server instance, the six groups
\* are registered in the order device, app, screen, input, inspection,
\* advanced, every tool is registered, and no name is registered twice.
C18_RegisteredOnceInGroupOrder ==
    registry # <<>> =>
        /\ Range(registry) = DOMAIN ToolGroup
        /\ \A i, j \in 1..Len(registry) :
               /\ i < j => ToolGroup[registry[i]] <= ToolGroup[registry[j]]
               /\ i # j => registry[i] # registry[j]

\* register_all_tools has run on the new instance, and a registered tool has
\* been served since.
C18_Witness ==
    /\ Len(registry) = 28
    /\ registry[1] = "mcp_health"
    /\ registry[28] = "wait_activity"
    /\ Done(call, "press_key")

\* C19: connect_device answers success = true only if the bridge was found,
\* its list held a row of status "device", and u2.connect and the info read
\* returned; when the bridge is missing, its list command fails or the list
\* holds no ready device, it answers success = false and has attempted no
\* connection.
C19_ConnectOnlyAfterBridgeChecks ==
    Done(call, "connect_device") =>
        LET r == call.ret.val
            unready == \/ ~call.found
                       \/ call.fault = "adb devices"
                       \/ ReadyIds(call.rows) = <<>>
        IN  /\ r.success =>
                   /\ call.found
                   /\ ReadyIds(call.rows) # <<>>
                   /\ call.exc = "none"
                   /\ {"connect", "info"} \subseteq Completed(call.calls, call.fault)
            /\ unready =>
                   /\ ~r.success
                   /\ Count(call.calls, "connect") = 0
                   /\ DeviceCalls(call.calls) = {}

\* The bridge was found and listed one device, unauthorized: connect_device
\* answered success = false after the bridge's list command.
C19_Witness ==
    /\ Done(call, "connect_device")
    /\ call.found
    /\ call.rows = << <<"S2", "\t", "unauthorized">> >>
    /\ call.calls = <<"which", "adb devices">>
    /\ ~call.ret.val.success

\* C20: no tool but wait_for_screen_on retries: within one invocation the
\* connection and every library or bridge call are attempted at most once,
\* and the call that raised is the last call of the invocation.
C20_NoRetries ==
    call.tool # "none" =>
        /\ \A i, j \in 1..Len(call.calls) : i # j => call.calls[i] # call.calls[j]
        /\ call.fault \in Range(call.calls) =>
               /\ call.calls[Len(call.calls)] = call.fault
               /\ call.pc = "done"
               /\ call.exc # "none"

\* start_app ended, with False, at the app_start that raised.
C20_Witness ==
    /\ Done(call, "start_app")
    /\ call.fault = "app_start"
    /\ call.calls = <<"connect", "app_start">>
    /\ call.ret = PyBool(FALSE)

\* The result of an invocation of a single-call tool, as a function of the
\* invocation alone: its tool, the call the device made raise, and what the
\* library answered during the call.
ResultOf(c) ==
    LET ok == c.fault = "none"
    IN  IF c.tool \in DOMAIN BoolTools THEN <<FALSE, PyBool(ok)>>
        ELSE IF c.tool = "unlock_screen"
        THEN <<FALSE, PyBool(ok \/ (c.fault = "screen_on" /\ c.lib = PyBool(TRUE)))>>
        ELSE IF c.tool = "get_current_app"
        THEN <<~ok, IF ok THEN c.lib ELSE PyNone>>
        ELSE IF c.tool = "dump_hierarchy"
        THEN <<FALSE, IF ok THEN PyStr("<hierarchy/>") ELSE PyStr("")>>
        ELSE IF c.tool = "get_toast"
        THEN <<FALSE, IF ok /\ c.lib \notin {PyNone, PyStr("")} THEN c.lib ELSE PyStr("")>>
        ELSE IF c.tool = "wait_activity"
        THEN <<FALSE, IF ok THEN c.lib ELSE PyBool(FALSE)>>
        ELSE <<c.raised, c.ret>>

ScreenOffBetween ==
    /\ call.pc = "waiting"
    /\ call.tool = "unlock_screen"
    /\ call.lib = PyBool(TRUE)
    /\ call.fault = "none"
    /\ Done(poll, "screen_off")
    /\ poll.ret = PyBool(TRUE)
    /\ ~screenOn

\* C22: unlock_screen's read of the screen state and its unlock gesture are
\* not atomic: when a concurrent screen_off has taken effect between them,
\* unlock_screen goes on with the value it read; it issues the unlock gesture
\* with the screen off, without waking the screen, and returns True.
C22_UnlockActsOnStaleRead ==
    [][(ScreenOffBetween /\ call'.pc = "done")
       => /\ call'.calls = <<"connect", "info", "unlock">>
          /\ call'.ret = PyBool(TRUE)]_vars

\* The interleaving is reached, and from it unlock_screen returns True.
C22_Witness ==
    /\ ScreenOffBetween
    /\ ENABLED (UnlockScreenGesture /\ call'.ret = PyBool(TRUE)
                                    /\ "screen_on" \notin Range(call'.calls))

\* A step that serves one of the inspecting operations; c is the invocation
\* it produced.
Inspects(c) ==
    \/ call' # call /\ c = call' /\ c.tool \in {"get_device_status", "get_device_info"}
    \/ poll' # poll /\ c = poll' /\ c.tool = "wait_for_screen_on"

\* C23: get_device_status, get_device_info and wait_for_screen_on only read
\* the screen state: they do not issue the library call by which the
\* screen_on tool turns the screen on, and they leave the screen as it was,
\* so a probe or a poll of a device whose screen is off never turns it on.
C23_InspectingLeavesScreen ==
    [][\A c \in {call', poll'} :
          Inspects(c) => /\ BoolTools.screen_on \notin Range(c.calls)
                         /\ screenOn' = screenOn]_vars

\* C24: in every get_device_status response, ready_for_automation = true
\* implies adb_available = true, a non-empty connected_devices,
\* device_connected = true, a non-empty device_info and error = None; and
\* adb_available = false implies connected_devices = [], device_connected =
\* false and a non-empty error string.
C24_StatusFlagsConsistent ==
    Done(call, "get_device_status") =>
        LET r == call.ret.val
        IN  /\ r.ready_for_automation =>
                  /\ r.adb_available
                  /\ r.connected_devices # <<>>
                  /\ r.device_connected
                  /\ r.device_info # EmptyDict
                  /\ r.error = PyNone
            /\ ~r.adb_available =>
                  /\ r.connected_devices = <<>>
                  /\ ~r.device_connected
                  /\ r.error.type = "str"
                  /\ r.error.val # ""

\* A response that reports the device ready for automation.
C24_Witness ==
    /\ Done(call, "get_device_status")
    /\ call.ret.val.ready_for_automation
    /\ call.ret.val.connected_devices # <<>>

\* C25: in every check_adb_and_list_devices response, a failed enumeration
\* (no executable, or a list command that failed) carries a non-empty error
\* string; a non-empty devices list implies adb_exists = true and error =
\* None; adb_exists = false implies devices = [] and the error "adb command
\* not found in PATH"; and a list command that failed when the executable
\* was found is reported with adb_exists = true.
C25_ListFlagsConsistent ==
    Done(call, "check_adb_and_list_devices") =>
        LET r == call.ret.val
            listFailed == call.found /\ call.fault = "adb devices"
        IN  /\ (~call.found \/ listFailed) => r.error.type = "str" /\ r.error.val # ""
            /\ r.devices # <<>> => r.adb_exists /\ r.error = PyNone
            /\ ~r.adb_exists =>
                  r.devices = <<>> /\ r.error = PyStr("adb command not found in PATH")
            /\ listFailed => r.adb_exists

\* The executable was found and its list command failed.
C25_Witness ==
    /\ Done(call, "check_adb_and_list_devices")
    /\ call.found
    /\ call.fault = "adb devices"
    /\ call.ret.val.adb_exists
    /\ call.ret.val.error.val # ""

\* C26: the result of wait_for_element and of scroll_to does not depend on the
\* selector kind: with any of text, resourceId and description the call
\* returns True when the library found the element (it appeared within the
\* timeout, or scrolling reached it) and False when it did not.
C26_SelectorKindIrrelevant ==
    \A tool \in {"wait_for_element", "scroll_to"} :
        (Done(call, tool) /\ Healthy(call)) => call.ret = PyBool(Truthy(call.lib))

\* The calls by which a handler asks the device for an element or acts on it.
QueriesAndGestures == {"wait", "count", "exists", "click", "long_click", "drag_to"}

\* A step that serves click, long_click or drag with a kind outside text,
\* resourceId and description.
ServesInvalidKind ==
    /\ call' # call
    /\ call'.tool \in {"click", "long_click", "drag"}
    /\ call'.selector_type \notin ValidSelectorTypes

\* C27: an invalid selector kind is a local validation failure: click,
\* long_click and drag invoked with a kind outside {text, resourceId,
\* description} end at once, having issued no element query and no gesture
\* to the device, and the element on screen, the app in front and the screen
\* are as they were before the invocation.
C27_InvalidKindTouchesNothing ==
    [][ServesInvalidKind =>
          /\ call'.pc = "done"
          /\ Range(call'.calls) \cap QueriesAndGestures = {}
          /\ UNCHANGED <<present, front, screenOn>>]_vars

\* A drag with an unknown kind, served while the element is on screen.
C27_Witness ==
    /\ Done(call, "drag")
    /\ call.selector_type \notin ValidSelectorTypes
    /\ call.fault = "none"
    /\ call.present0
    /\ present
    /\ call.calls = <<"connect">>
    /\ call.ret = PyBool(FALSE)

\* The devices each of the three tools finds in the bridge output `stdout`,
\* read from the tool's own response on a device that answers.
ListedBy(stdout) == check_adb_and_list_devices(TRUE, stdout, "none", "").ret.val.devices
StatusOf(stdout) == get_device_status(TRUE, stdout, "none", "").ret.val.connected_devices
NoDevicesError ==
    PyStr("No Android devices connected. Please connect a device and ensure USB debugging is enabled.")
ConnectRefuses(stdout) ==
    connect_device(PyNone, TRUE, stdout, "", "none", "").ret.val.error = NoDevicesError

\* An invocation of one of the three tools that obtained the bridge's list.
Listed(c) ==
    /\ c.pc = "done"
    /\ c.tool \in {"get_device_status", "check_adb_and_list_devices", "connect_device"}
    /\ c.found
    /\ c.fault # "adb devices"

=============================================================================
